---- MODULE Spec2Model ----
(***************************************************************************)
(* Model of the sshdb Tunnel (package sshdb, sshdb.go): one ssh client     *)
(* session per tunnel, established lazily by DialContext, multiplexing     *)
(* tracked connections, torn down by reset (explicit Close, Close of the   *)
(* last tracked connection, or the watcher goroutine after cl.Wait()).     *)
(*                                                                         *)
(* Processes are the callers (Workers) and one watcher goroutine per       *)
(* established session.  Every step that the code performs while holding   *)
(* tun.m is a separate action guarded by m = p, so that the events that    *)
(* do not take the lock (context cancellation, loss of the session, the    *)
(* watcher's unlocked check of its captured channel) interleave with it.   *)
(*                                                                         *)
(* The connector side (OpenConnector and its cache, Open, the deadline     *)
(* flag and the SetDeadline methods of the connections) is guarded by      *)
(* tun.mConn.  Two forms of the tunnel are covered: the one of sshdb.go,   *)
(* whose OpenConnector takes the driver, and the older one whose driver    *)
(* is given to New and which wraps the connectors and has Open.            *)
(***************************************************************************)
EXTENDS Integers, FiniteSets, Sequences, TLC

\* ---- bounds ----
NumWorkers == 2
MaxAddrLen == 3
MaxDatasources == 3
MaxDials == 2
MaxConns == 2
CountCap == 2
MaxCalls == 3

Workers == 1..NumWorkers
Sessions == 1..MaxDials
Watchers == {NumWorkers + s : s \in Sessions}
Procs == Workers \cup Watchers
Conns == 1..MaxConns
Chans == 0..MaxDials

VARIABLES
  m,            \* tun.m: 0 when unlocked, else the process holding it
  resetChan,    \* tun.resetChan: identity of the current channel
  closedChans,  \* the channels that have been closed
  client,       \* tun.client: 0 is nil, else the session stored
  sshconns,     \* tun.sshconns: the tracked connections
  sessAlive,    \* ssh session: "none" (not yet dialed), "live", "term"
  connSess,     \* the session a forwarded connection was opened over (0: not created)
  pc,           \* position of every process
  ctx,          \* the context of a worker's DialContext call: "live" or "done"
  cl,           \* local cl of the DialContext holding tun.m: the client just dialed
  arg,          \* the *sshConn a worker is closing (0: none)
  dials,        \* number of ssh.Dial calls made (handshakes attempted)
  nconns,       \* number of forwarded connections created
  sessCloses,   \* number of Close calls made on each ssh client
  streamCloses, \* number of Close calls made on each forwarded stream
  effResets,    \* number of effective resets per reset channel
  watcherStarts,\* number of watcher goroutines started per session
  hist,         \* observations made by the operation holding tun.m
  last,         \* result returned by the operation that released tun.m most recently
  clean,        \* no failure, cancellation or close has happened so far
  ncalls,       \* DialContext calls made while clean
  err,          \* the error produced by the step just taken ("nil": none)
  mConn,        \* tun.mConn: 0 when unlocked, else the worker holding it
  connectors,   \* tun.connectors: cache key -> connector (NoConnector: absent)
  ignoreSetDeadlineRequest, \* tun.ignoreSetDeadlineRequest
  oarg,         \* arguments of the operation holding tun.mConn
  backendCalls, \* number of OpenConnector calls made on the Backend per request
  cres,         \* outcome of the connector-side step just taken (NoRes: none)
  flagConns,    \* connections created before the latest IgnoreSetDeadlineRequest
  form,         \* which OpenConnector the tunnel has: driver per call or set by New
  newArgs,      \* the arguments of New
  newRes,       \* what New returned (NoNewRes: not called)
  tc,           \* a TunnelConfig: its fields and tc.dbMap
  dbRes,        \* what the latest tc.DatabaseMap() returned (NoDbRes: not called)
  dbGot,        \* what the latest tc.DB(name) returned (NoDbGot: not called)
  driverMap,    \* the keys of the package's driverMap
  mDriverMap,   \* holder of the package's mDriverMap, 0 when free
  reg,          \* per worker: where it is in RegisterDriver or Datasource.Driver
  dialArgs,     \* the net and addr arguments of a DialContext
  chanOpen      \* the network and address of the channel it opened

vars == <<m, resetChan, closedChans, client, sshconns, sessAlive, connSess, pc,
          ctx, cl, arg, dials, nconns, sessCloses, streamCloses,
          effResets, watcherStarts, hist, last, clean, ncalls, err,
          mConn, connectors, ignoreSetDeadlineRequest, oarg, backendCalls, cres,
          flagConns, form, newArgs, newRes, tc, dbRes, dbGot,
          driverMap, mDriverMap, reg, dialArgs, chanOpen>>

tunvars == <<resetChan, closedChans, client, sshconns>>
histvars == <<sessCloses, streamCloses, effResets, watcherStarts>>
cachevars == <<mConn, connectors, ignoreSetDeadlineRequest, oarg, backendCalls,
               flagConns, form>>
configvars == <<tc, dbRes, dbGot>>
regvars == <<driverMap, mDriverMap, reg>>
sidevars == <<newArgs, newRes, configvars, regvars, dialArgs, chanOpen>>
corevars == <<m, tunvars, sessAlive, connSess, pc, ctx, cl, arg, dials, nconns,
              histvars, hist, last, clean, ncalls, err, cachevars, cres>>

WatcherOf(s) == NumWorkers + s

NoHist == [sel |-> "none", hs |-> FALSE, pre |-> "none"]

\* ---- the connector side: drivers, connection strings, cache keys ----

\* strings are sequences of characters
Colon == <<":">>
DriverNames == {<<"a">>, <<"a", ":", "b">>}
Dsns == {<<"c">>, <<"b", ":", "c">>, <<"E", "R", "R">>}

\* perCall: OpenConnector(tunnelDriver, dsn); atNew: New(tunnelDriver, ...)
\* and OpenConnector(dsn), Open(dsn)
Forms == {"perCall", "atNew"}

\* the driver handed to New in the atNew form
TunnelDriver == <<"a">>

\* the (driver, connection string) pairs the callers ask for: two pairs
\* whose names and strings concatenate to the same text, and a connection
\* string that the Backend rejects
Requests ==
  IF form = "perCall"
    THEN {<<<<"a">>, <<"b", ":", "c">>>>, <<<<"a", ":", "b">>, <<"c">>>>,
          <<<<"a">>, <<"E", "R", "R">>>>}
    ELSE {<<TunnelDriver, <<"b", ":", "c">>>>, <<TunnelDriver, <<"E", "R", "R">>>>}

\* tunnelDriver.Name() + ":" + dsn, and dsn alone in the atNew form
CacheKey(d, s) == IF form = "perCall" THEN d \o Colon \o s ELSE s

Keys == {d \o Colon \o s : d \in DriverNames, s \in Dsns} \cup Dsns

HasPrefix(s, pre) == Len(s) >= Len(pre) /\ SubSeq(s, 1, Len(pre)) = pre

\* the Backend of the tests: a connection string starting with ERR is rejected
BackendAccepts(d, s) == ~HasPrefix(s, <<"E", "R", "R">>)

NoConnector == [drv |-> <<>>, dsn |-> <<>>]
NoArg == [op |-> "none", drv |-> <<>>, dsn |-> <<>>, conn |-> 0, val |-> FALSE]
NoRes == [op |-> "none", key |-> <<>>, connector |-> NoConnector, conn |-> 0,
          called |-> "none", err |-> "nil", via |-> "none"]

\* ---- New and TunnelConfig: arguments and results ----

\* the characters of the remote addresses tried
AddrChars == {"h", ":", "[", "]", " "}

\* the remote addresses tried: every string of at most MaxAddrLen characters
AddrStrings == UNION {[1..n -> AddrChars] : n \in 0..MaxAddrLen}

NoNewArgs == [drv |-> "none", cfg |-> "none", addr |-> <<>>]
NoNewRes == [tun |-> "none", err |-> "none"]

\* the datasources of a TunnelConfig and what is wrong with one: its
\* ConnectionString is empty, its driver name is not registered, or the
\* Backend rejects its connection string
Names == 1..MaxDatasources
DsKinds == {"ok", "emptyDsn", "noDriver", "rejected"}

\* what stops DatabaseMap before the tunnel is made: validate,
\* sshClientConfig, New
PreKinds == {"ok", "invalid", "authErr", "newErr"}

\* tc.dbMap is nil (made FALSE) or a map, of which dbMap is the key set
\* tunnels counts the Tunnels made for it, opens the OpenConnector calls
\* made on Backends, calls the DatabaseMap calls
NoConfig == [pre |-> "none", ds |-> <<>>, made |-> FALSE, dbMap |-> {}, closed |-> FALSE,
             tunnels |-> 0, opens |-> 0, calls |-> 0]

\* the map returned is nil (some FALSE) or a map with the keys in map
\* and is the map made for the id-th Tunnel
NoDbRes == [some |-> FALSE, map |-> {}, err |-> "none", id |-> 0]

\* the DB returned is nil (db 0) or the one of the datasource db
NoDbGot == [db |-> 0, err |-> "none"]

\* the names under which drivers are registered and looked up
DriverKeys == {"mysql", "mssql"}

\* a worker outside RegisterDriver and Datasource.Driver
NoReg == [pc |-> "idle", key |-> "none", res |-> "none"]

\* the net arguments tried and the characters of the addresses tried
Networks == {"tcp", "unix", "udp"}
NetAddrs == UNION {[1..n -> {"/", "h", ":"}] : n \in 0..MaxAddrLen}

NoDialArgs == [net |-> "none", addr |-> <<>>]
NoChan == [network |-> "none", addr |-> <<>>]

\* no TunnelConfig is looked at
ConfigIdle ==
  /\ tc = NoConfig
  /\ dbRes = NoDbRes
  /\ dbGot = NoDbGot

\* var driverMap = make(map[string]Driver); var mDriverMap sync.Mutex
RegIdle ==
  /\ driverMap = {}
  /\ mDriverMap = 0
  /\ reg = [w \in Workers |-> NoReg]

\* no New and no TunnelConfig is looked at
SideIdle ==
  /\ newArgs = NoNewArgs
  /\ newRes = NoNewRes
  /\ ConfigIdle
  /\ RegIdle
  /\ dialArgs = NoDialArgs
  /\ chanOpen = NoChan

\* the fields of a Tunnel and the bookkeeping of the model before
\* anything has happened, the reset channel left aside
TunZero ==
  /\ m = 0
  /\ resetChan = 0
  /\ client = 0
  /\ sshconns = {}
  /\ sessAlive = [s \in Sessions |-> "none"]
  /\ connSess = [c \in Conns |-> 0]
  /\ pc = [p \in Procs |-> IF p \in Workers THEN "idle" ELSE "unborn"]
  /\ ctx = [w \in Workers |-> "live"]
  /\ cl = 0
  /\ arg = [w \in Workers |-> 0]
  /\ dials = 0
  /\ nconns = 0
  /\ sessCloses = [s \in Sessions |-> 0]
  /\ streamCloses = [c \in Conns |-> 0]
  /\ effResets = [c \in Chans |-> 0]
  /\ watcherStarts = [s \in Sessions |-> 0]
  /\ hist = NoHist
  /\ last = "none"
  /\ clean = TRUE
  /\ ncalls = 0
  /\ err = "nil"
  /\ mConn = 0
  /\ connectors = [k \in Keys |-> NoConnector]
  /\ ignoreSetDeadlineRequest = FALSE
  /\ oarg = NoArg
  /\ backendCalls = [r \in DriverNames \X Dsns |-> 0]
  /\ cres = NoRes
  /\ flagConns = 0

\* New: the reset channel is created closed, no client, empty maps.
TunInit == TunZero /\ closedChans = {0}

Init == TunInit /\ form = "perCall" /\ SideIdle

\* a tunnel of either form
InitC == TunInit /\ form \in Forms /\ SideIdle

\* ---- helpers ----

\* case <-tun.resetChan: a receive on a closed channel is ready.
ResetSignalClosed == resetChan \in closedChans

\* case <-ctxchan: ready once the context is done.
CtxDone(w) == ctx[w] = "done"

DialPcs == {"D_lock", "D_select", "D_handshake", "D_postcheck", "D_getNetConn"}

\* the calls in progress that may still dial: DialContext, and Open before
\* its Connect
Pending ==
  Cardinality({w \in Workers :
                 \/ pc[w] \in DialPcs
                 \/ pc[w] = "OC_body" /\ mConn = w /\ oarg.op = "Open"})

\* saturating counter of close calls
Bump(n) == IF n < CountCap THEN n + 1 ELSE n

\* return with tun.m.Unlock() (deferred or explicit); the locals go away.
\* A DialContext made by a Backend inside OpenConnector returns into it.
Return(p, r) ==
  /\ m' = 0
  /\ pc' = [pc EXCEPT ![p] = IF p \notin Workers THEN "W_done"
                              ELSE IF mConn = p THEN "OC_store" ELSE "idle"]
  /\ last' = r
  /\ hist' = NoHist
  /\ cl' = 0
  /\ ctx' = [w \in Workers |-> IF w = p THEN "live" ELSE ctx[w]]
  /\ arg' = [w \in Workers |-> IF w = p THEN 0 ELSE arg[w]]

\* continue at label l, still holding tun.m
Goto(p, l) ==
  /\ pc' = [pc EXCEPT ![p] = l]
  /\ UNCHANGED <<m, last, ctx, arg>>

\* a call is made: the worker goes to the label where it waits for tun.m
Call(w, l) ==
  /\ pc[w] = "idle"
  /\ pc' = [pc EXCEPT ![w] = l]
  /\ UNCHANGED <<m, tunvars, sessAlive, connSess, cl, dials, nconns, histvars,
                 hist, last>>
  /\ err' = "nil"
  /\ cres' = NoRes
  /\ UNCHANGED <<cachevars, sidevars>>

\* tun.m.Lock() of every operation
LockTarget(s) ==
  CASE s = "D_lock" -> "D_select"
    [] s = "C_lock" -> "R_select"
    [] s = "W_lock" -> "R_select"
    [] s = "SC_lock" -> "SC_body"
    [] s = "CC_lock" -> "CC_read"

\* variant: the lock is granted while somebody holds it
MutexFree_Always == TRUE

\* variant: tun.m is granted only while tun.mConn is free as well
MutexFree_NeedsConn == m = 0 /\ mConn = 0

\* sync.Mutex: Lock returns only when nobody holds tun.m
MutexFree == m = 0

Lock(p) ==
  /\ pc[p] \in {"D_lock", "C_lock", "W_lock", "SC_lock", "CC_lock"}
  /\ MutexFree
  /\ m' = p
  /\ pc' = [pc EXCEPT ![p] = LockTarget(pc[p])]
  /\ hist' = [NoHist EXCEPT !.pre = IF ResetSignalClosed THEN "RESET" ELSE "CONNECTED"]
  /\ UNCHANGED <<tunvars, sessAlive, connSess, ctx, cl, arg, dials, nconns,
                 histvars, last, clean, ncalls>>
  /\ err' = "nil"
  /\ cres' = NoRes
  /\ UNCHANGED <<cachevars, sidevars>>

\* ---- DialContext ----

CallDialContext(w, c) ==
  /\ Call(w, "D_lock")
  /\ dials + Pending < MaxDials
  /\ nconns + Pending < MaxConns
  /\ ctx' = [ctx EXCEPT ![w] = c]
  /\ clean' = (clean /\ c = "live")
  /\ ncalls' = IF clean' THEN ncalls + 1 ELSE ncalls
  /\ UNCHANGED arg

\* variant: a new handshake on every call whose context is not done
SelectChoices_Redial(w) == IF CtxDone(w) THEN {"ctx"} ELSE {"reset"}

\* the first select of DialContext: Go picks one of the ready cases, the
\* default only when none is ready.
SelectChoices(w) ==
  IF CtxDone(w) \/ ResetSignalClosed
    THEN (IF CtxDone(w) THEN {"ctx"} ELSE {}) \cup
         (IF ResetSignalClosed THEN {"reset"} ELSE {})
    ELSE {"default"}

DialSelect(w) ==
  /\ pc[w] = "D_select" /\ m = w
  /\ \E ch \in SelectChoices(w) :
       CASE ch = "ctx" -> Return(w, "ctxErr")
         [] ch = "reset" -> Goto(w, "D_handshake") /\ hist' = [hist EXCEPT !.sel = ch]
                                                   /\ UNCHANGED cl
         [] ch = "default" -> Goto(w, "D_getNetConn") /\ hist' = [hist EXCEPT !.sel = ch]
                                                      /\ UNCHANGED cl
  /\ UNCHANGED <<tunvars, sessAlive, connSess, dials, nconns, histvars, clean, ncalls>>
  /\ err' = "nil"
  /\ cres' = NoRes
  /\ UNCHANGED <<cachevars, sidevars>>

\* variant: a failed dial reports the context's error
DialError_Masked(e) == "ctxErr"

\* variant: the error is swallowed and the dial reports success
DialError_Dropped(e) == "ok"

\* return nil, err: a dial returns the error of the step that failed
DialError(e) == e

\* cl, err := ssh.Dial("tcp", tun.addr, tun.cfg)
DialHandshake(w) ==
  /\ pc[w] = "D_handshake" /\ m = w
  /\ dials' = dials + 1
  /\ \/ /\ Return(w, DialError("hsErr"))      \* err != nil
        /\ err' = "hsErr"
        /\ clean' = FALSE
        /\ UNCHANGED sessAlive
     \/ /\ sessAlive' = [sessAlive EXCEPT ![dials + 1] = "live"]
        /\ err' = "nil"
        /\ cl' = dials + 1
        /\ hist' = [hist EXCEPT !.hs = TRUE]
        /\ Goto(w, "D_postcheck")
        /\ UNCHANGED clean
  /\ UNCHANGED <<tunvars, connSess, nconns, histvars, ncalls>>
  /\ cres' = NoRes
  /\ UNCHANGED <<cachevars, sidevars>>

\* variant: the channel closed by New is kept instead of a fresh one
NewResetChan_Stale(s) == 0

\* tun.resetChan = clientResetChannel: the fresh channel of session s
NewResetChan(s) == s

\* variant: the check after the handshake is missing
PostcheckAborts_Never(w) == FALSE

\* the second select of DialContext: case <-ctxchan after ssh.Dial returned
PostcheckAborts(w) == CtxDone(w)

\* the second select: abort on a done context, else store the client,
\* install a fresh reset channel and start the watcher.
DialPostcheck(w) ==
  /\ pc[w] = "D_postcheck" /\ m = w
  /\ IF PostcheckAborts(w)
       THEN /\ sessCloses' = [sessCloses EXCEPT ![cl] = Bump(@)]
            /\ sessAlive' = [sessAlive EXCEPT ![cl] = "term"]
            /\ Return(w, "ctxErr")
            /\ UNCHANGED <<tunvars, watcherStarts>>
       ELSE /\ client' = cl
            /\ resetChan' = NewResetChan(cl)
            /\ watcherStarts' = [watcherStarts EXCEPT ![cl] = Bump(@)]
            /\ pc' = [pc EXCEPT ![w] = "D_getNetConn", ![WatcherOf(cl)] = "W_wait"]
            /\ UNCHANGED <<m, last, ctx, arg, hist, cl, closedChans, sshconns,
                           sessAlive, sessCloses>>
  /\ UNCHANGED <<connSess, dials, nconns, streamCloses, effResets, clean, ncalls>>
  /\ err' = "nil"
  /\ cres' = NoRes
  /\ UNCHANGED <<cachevars, sidevars>>

\* variant: the new connection is not put into the map
TrackConn_Forgotten(c) == sshconns

\* tun.sshconns[sc] = true
TrackConn(c) == sshconns \cup {c}

\* variant: a context done by now fails the dial
ChanOpenResult_CtxChecked(w) == IF CtxDone(w) THEN "ctxErr" ELSE "ok"

\* return sshconn, nil: getNetConn does not look at the context
ChanOpenResult(w) == "ok"

\* getNetConn: conn, err := tun.client.Dial(network, addr)
getNetConn(w) ==
  /\ pc[w] = "D_getNetConn" /\ m = w
  /\ \/ /\ Return(w, DialError("chanErr"))    \* err != nil
        /\ err' = "chanErr"
        /\ clean' = FALSE
        /\ UNCHANGED <<sshconns, connSess, nconns>>
     \/ /\ sessAlive[client] = "live"
        /\ err' = "nil"
        /\ nconns' = nconns + 1
        /\ connSess' = [connSess EXCEPT ![nconns + 1] = client]
        /\ sshconns' = TrackConn(nconns + 1)
        /\ Return(w, ChanOpenResult(w))
        /\ UNCHANGED clean
  /\ UNCHANGED <<resetChan, closedChans, client, sessAlive, dials, histvars, ncalls>>
  /\ cres' = NoRes
  /\ UNCHANGED <<cachevars, sidevars>>

\* ---- Close and reset ----

CallClose(w) ==
  /\ Call(w, "C_lock")
  /\ clean' = FALSE
  /\ UNCHANGED <<ctx, arg, ncalls>>

\* variant: reset without the guard on the reset channel
ResetIsNoop_Never == FALSE

\* variant: reset looks at the session handle instead of the channel
ResetIsNoop_NilClient == client = 0

\* variant: reset never does anything
ResetIsNoop_Always == TRUE

\* reset: case <-tun.resetChan: do nothing
ResetIsNoop == ResetSignalClosed

\* variant: the reset channel is left open
CloseSignal_Skipped == closedChans

\* close(tun.resetChan)
CloseSignal == closedChans \cup {resetChan}

\* reset, first step: the select, and close(tun.resetChan) in its default case
resetSelect(p) ==
  /\ pc[p] = "R_select" /\ m = p
  /\ IF ResetIsNoop
       THEN /\ Return(p, "closed")
            /\ UNCHANGED <<closedChans, effResets>>
       ELSE /\ closedChans' = CloseSignal
            /\ effResets' = [effResets EXCEPT ![resetChan] = Bump(@)]
            /\ hist' = [hist EXCEPT !.sel = "reset"]
            /\ Goto(p, "R_conns")
            /\ UNCHANGED cl
  /\ UNCHANGED <<resetChan, client, sshconns, sessAlive, connSess, dials, nconns,
                 sessCloses, streamCloses, watcherStarts, clean, ncalls>>
  /\ err' = "nil"
  /\ cres' = NoRes
  /\ UNCHANGED <<cachevars, sidevars>>

\* variant: the map is not cleared
EmptyConnMap_Kept == sshconns

\* tun.sshconns = make(map[*sshConn]bool)
EmptyConnMap == {}

\* k.Conn.Close() on a stream whose session has terminated may fail
StreamCloseErrs ==
  IF \E c \in sshconns : sessAlive[connSess[c]] = "term"
    THEN {"nil", "streamErr"} ELSE {"nil"}

\* reset, second step: close every tracked stream and clear the map; the
\* results of the Close calls are not looked at
\* variant: reset empties the connector cache as well
CacheAfterReset_Cleared == [k \in Keys |-> NoConnector]

\* reset has no statement on tun.connectors
CacheAfterReset == connectors

resetConns(p) ==
  /\ pc[p] = "R_conns" /\ m = p
  /\ err' \in StreamCloseErrs
  /\ streamCloses' = [c \in Conns |-> IF c \in sshconns THEN Bump(streamCloses[c])
                                                      ELSE streamCloses[c]]
  /\ sshconns' = EmptyConnMap
  /\ Goto(p, "R_client")
  /\ UNCHANGED <<resetChan, closedChans, client, sessAlive, connSess, cl, dials,
                 nconns, sessCloses, effResets, watcherStarts, hist, clean, ncalls>>
  /\ cres' = NoRes
  /\ connectors' = CacheAfterReset
  /\ UNCHANGED <<mConn, ignoreSetDeadlineRequest, oarg, backendCalls, flagConns,
                 form, sidevars>>

\* tun.client.Close(): closing a session that has already terminated may
\* report an error
ClientCloseErrs ==
  IF sessAlive[client] = "term" THEN {"nil", "closeErr"} ELSE {"nil"}

\* variant: the error of the session's Close is dropped
ResetReturn_Dropped(e) == "closed"

\* return tun.client.Close(): reset returns what the session's Close returned
ResetReturn(e) == IF e = "nil" THEN "closed" ELSE e

\* reset, last step: if tun.client != nil { return tun.client.Close() }
resetClient(p) ==
  /\ pc[p] = "R_client" /\ m = p
  /\ IF client # 0
       THEN /\ sessCloses' = [sessCloses EXCEPT ![client] = Bump(@)]
            /\ sessAlive' = [sessAlive EXCEPT ![client] = "term"]
            /\ \E e \in ClientCloseErrs :
                 /\ err' = e
                 /\ Return(p, ResetReturn(e))
       ELSE /\ Return(p, "closed")
            /\ err' = "nil"
            /\ UNCHANGED <<sessCloses, sessAlive>>
  /\ UNCHANGED <<tunvars, connSess, dials, nconns, streamCloses, effResets,
                 watcherStarts, clean, ncalls>>
  /\ cres' = NoRes
  /\ UNCHANGED <<cachevars, sidevars>>

\* ---- sshConn.Close ----

CallConnClose(w, c) ==
  /\ Call(w, "SC_lock")
  /\ c \in 1..nconns
  /\ arg' = [arg EXCEPT ![w] = c]
  /\ clean' = FALSE
  /\ UNCHANGED <<ctx, ncalls>>

\* variant: the last connection is closed like any other
OthersRemain_Always == Cardinality(sshconns) > 0

\* variant: the session is reset while another connection remains
OthersRemain_Late == Cardinality(sshconns) > 2

\* if len(tunnel.sshconns) > 1
OthersRemain == Cardinality(sshconns) > 1

\* variant: the connection stays in the map
Untrack_Kept(c) == sshconns

\* delete(tunnel.sshconns, sc)
Untrack(c) == sshconns \ {c}

sshConnClose(w) ==
  /\ pc[w] = "SC_body" /\ m = w
  /\ IF OthersRemain
       THEN /\ sshconns' = Untrack(arg[w])
            /\ streamCloses' = [streamCloses EXCEPT ![arg[w]] = Bump(@)]
            /\ Return(w, "closed")
       ELSE /\ Goto(w, "R_select")
            /\ UNCHANGED <<sshconns, streamCloses, hist, cl>>
  /\ UNCHANGED <<resetChan, closedChans, client, sessAlive, connSess, dials, nconns,
                 sessCloses, effResets, watcherStarts, clean, ncalls>>
  /\ err' = "nil"
  /\ cres' = NoRes
  /\ UNCHANGED <<cachevars, sidevars>>

\* ---- ConnCount ----

CallConnCount(w) ==
  /\ Call(w, "CC_lock")
  /\ UNCHANGED <<ctx, arg, clean, ncalls>>

\* cnt := len(tun.sshconns)
ConnCount(w) ==
  /\ pc[w] = "CC_read" /\ m = w
  /\ Return(w, last)
  /\ UNCHANGED <<tunvars, sessAlive, connSess, dials, nconns, histvars, clean, ncalls>>
  /\ err' = "nil"
  /\ cres' = NoRes
  /\ UNCHANGED <<cachevars, sidevars>>

\* ---- the watcher goroutine started by DialContext for session s ----

\* _ = cl.Wait(): returns, with the error that ended the session, once the
\* session has terminated; the error is dropped
WatcherWait(s) ==
  /\ pc[WatcherOf(s)] = "W_wait"
  /\ sessAlive[s] = "term"
  /\ err' = "waitErr"
  /\ pc' = [pc EXCEPT ![WatcherOf(s)] = "W_check"]
  /\ UNCHANGED <<m, tunvars, sessAlive, connSess, ctx, cl, arg, dials, nconns,
                 histvars, hist, last, clean, ncalls>>
  /\ cres' = NoRes
  /\ UNCHANGED <<cachevars, sidevars>>

\* variant: the watcher never resets
CapturedClosed_Always(s) == TRUE

\* case <-clientResetChannel: the captured channel has been closed
CapturedClosed(s) == NewResetChan(s) \in closedChans

\* select { case <-clientResetChannel: return; default: tun.Close() },
\* evaluated without holding tun.m
WatcherCheck(s) ==
  /\ pc[WatcherOf(s)] = "W_check"
  /\ pc' = [pc EXCEPT ![WatcherOf(s)] = IF CapturedClosed(s) THEN "W_done" ELSE "W_lock"]
  /\ UNCHANGED <<m, tunvars, sessAlive, connSess, ctx, cl, arg, dials, nconns,
                 histvars, hist, last, clean, ncalls>>
  /\ err' = "nil"
  /\ cres' = NoRes
  /\ UNCHANGED <<cachevars, sidevars>>

\* ---- environment ----

\* the ssh session is lost (server-side close, network drop)
SessionDies(s) ==
  /\ sessAlive[s] = "live"
  /\ client = s
  /\ sessAlive' = [sessAlive EXCEPT ![s] = "term"]
  /\ clean' = FALSE
  /\ UNCHANGED <<m, tunvars, connSess, pc, ctx, cl, arg, dials, nconns,
                 histvars, hist, last, ncalls>>
  /\ err' = "nil"
  /\ cres' = NoRes
  /\ UNCHANGED <<cachevars, sidevars>>

\* the caller cancels the context of a DialContext call in progress
CancelCtx(w) ==
  /\ pc[w] \in DialPcs
  /\ ctx[w] = "live"
  /\ ctx' = [ctx EXCEPT ![w] = "done"]
  /\ clean' = FALSE
  /\ UNCHANGED <<m, tunvars, sessAlive, connSess, pc, cl, arg, dials, nconns,
                 histvars, hist, last, ncalls>>
  /\ err' = "nil"
  /\ cres' = NoRes
  /\ UNCHANGED <<cachevars, sidevars>>

\* the caller cancels the context it gave to a DialContext that has
\* returned connection c: nothing of the tunnel refers to that context
CancelReturned(c) ==
  /\ c \in 1..nconns
  /\ err' = "nil"
  /\ cres' = [NoRes EXCEPT !.op = "CancelCtx", !.conn = c]
  /\ UNCHANGED <<m, tunvars, sessAlive, connSess, pc, ctx, cl, arg, dials, nconns,
                 histvars, hist, last, clean, ncalls>>
  /\ UNCHANGED <<cachevars, sidevars>>

\* ---- the connector side: OpenConnector, Open, deadlines ----

\* variant: tun.mConn is granted while somebody holds it
ConnMutexFree_Always == TRUE

\* variant: tun.mConn is granted only while tun.m is free as well
ConnMutexFree_Coupled == mConn = 0 /\ m = 0

\* sync.Mutex: Lock returns only when nobody holds tun.mConn
ConnMutexFree == mConn = 0

\* a call whose first statement is tun.mConn.Lock(): the worker gets the
\* lock and is in the body of the operation
CallConn(w, l, a) ==
  /\ pc[w] = "idle"
  /\ ConnMutexFree
  /\ mConn' = w
  /\ oarg' = a
  /\ pc' = [pc EXCEPT ![w] = l]
  /\ err' = "nil"
  /\ cres' = NoRes
  /\ UNCHANGED <<m, tunvars, sessAlive, connSess, ctx, cl, arg, dials, nconns,
                 histvars, hist, last, clean, ncalls, connectors,
                 ignoreSetDeadlineRequest, backendCalls, flagConns, form, sidevars>>

\* return with tun.mConn.Unlock()
ReturnConn(w) ==
  /\ mConn' = 0
  /\ oarg' = NoArg
  /\ pc' = [pc EXCEPT ![w] = "idle"]
  /\ UNCHANGED <<m, tunvars, sessAlive, connSess, ctx, cl, arg, dials, nconns,
                 histvars, hist, last, clean, ncalls, form, sidevars>>

CallOpenConnector(w, d, s) ==
  /\ <<d, s>> \in Requests
  /\ CallConn(w, "OC_body", [NoArg EXCEPT !.op = "OpenConnector", !.drv = d, !.dsn = s])

\* tunnel.Open(dsn) of the atNew form: connector, err := tun.OpenConnector(dsn)
CallOpen(w, s) ==
  /\ form = "atNew"
  /\ <<TunnelDriver, s>> \in Requests
  /\ dials + Pending < MaxDials
  /\ nconns + Pending < MaxConns
  /\ CallConn(w, "OC_body", [NoArg EXCEPT !.op = "Open", !.drv = TunnelDriver, !.dsn = s])

\* connectorName of the call holding tun.mConn
OCKey == CacheKey(oarg.drv, oarg.dsn)

\* if connector, ok := tun.connectors[connectorName]; ok
CacheHit == connectors[OCKey] # NoConnector

\* dbconnector, err := tunnelDriver.OpenConnector(dialer, dataSourceName)
BackendErr == IF BackendAccepts(oarg.drv, oarg.dsn) THEN "nil" ELSE "dsnErr"
NewConnector == [drv |-> oarg.drv, dsn |-> oarg.dsn]

\* variant: the connector is not stored
CacheStore_Nothing(k, c) == connectors

\* tun.connectors[connectorName] = dbconnector
CacheStore(k, c) == [connectors EXCEPT ![k] = c]

\* variant: the Backend's error does not stop OpenConnector
BackendFailed_Ignored == FALSE

\* if err != nil { return nil, err }
BackendFailed == BackendErr # "nil"

\* what OpenConnector returns and leaves in the cache
OCErr == IF CacheHit THEN "nil" ELSE BackendErr
OCReturned ==
  IF CacheHit THEN connectors[OCKey]
  ELSE IF BackendErr = "nil" THEN NewConnector ELSE NoConnector
OCConnectors ==
  IF CacheHit \/ BackendFailed THEN connectors
  ELSE CacheStore(OCKey, NewConnector)

\* variant: Open connects whatever OpenConnector returned
OpenConnects_Always(e) == TRUE

\* Open: if err != nil { return nil, err }
OpenConnects(e) == e = "nil"

\* the body of OpenConnector under tun.mConn; for Open, followed by
\* return connector.Connect(context.Background()), which dials
OpenConnector(w) ==
  /\ pc[w] \in {"OC_body", "OC_store"} /\ mConn = w
  /\ connectors' = OCConnectors
  /\ backendCalls' = IF CacheHit THEN backendCalls
                     ELSE [backendCalls EXCEPT ![<<oarg.drv, oarg.dsn>>] = Bump(@)]
  /\ err' = OCErr
  /\ cres' = [NoRes EXCEPT !.op = oarg.op, !.key = OCKey,
                           !.connector = OCReturned, !.err = OCErr]
  /\ mConn' = 0
  /\ oarg' = NoArg
  /\ IF oarg.op = "Open" /\ OpenConnects(OCErr)
       THEN /\ pc' = [pc EXCEPT ![w] = "D_lock"]
            /\ ctx' = [ctx EXCEPT ![w] = "bg"]
            /\ clean' = FALSE
       ELSE /\ pc' = [pc EXCEPT ![w] = "idle"]
            /\ UNCHANGED <<ctx, clean>>
  /\ UNCHANGED <<m, tunvars, sessAlive, connSess, cl, arg, dials, nconns,
                 histvars, hist, last, ncalls, ignoreSetDeadlineRequest,
                 flagConns, form, sidevars>>

\* tunnelDriver.OpenConnector(tun, dataSourceName) of a Backend that uses
\* the dialer it is given before it returns: tun.DialContext is called
\* while tun.mConn is held
BackendDial(w) ==
  /\ pc[w] = "OC_body" /\ mConn = w
  /\ oarg.op = "OpenConnector" /\ ~CacheHit
  /\ dials + Pending < MaxDials
  /\ nconns + Pending < MaxConns
  /\ pc' = [pc EXCEPT ![w] = "D_lock"]
  /\ ctx' = [ctx EXCEPT ![w] = "bg"]
  /\ clean' = FALSE
  /\ err' = "nil"
  /\ cres' = NoRes
  /\ UNCHANGED <<m, tunvars, sessAlive, connSess, cl, arg, dials, nconns,
                 histvars, hist, last, ncalls>>
  /\ UNCHANGED <<cachevars, sidevars>>

\* variant: a read or write takes tun.m first
IOReady_NeedsLock == m = 0

\* sshConn embeds net.Conn: Read and Write are the stream's own methods
\* and take no lock of the tunnel
IOReady == TRUE

\* sc.Read(b), sc.Write(b) on a connection made by the tunnel
ConnIO(w, c) ==
  /\ pc[w] = "idle"
  /\ c \in 1..nconns
  /\ IOReady
  /\ err' = "nil"
  /\ cres' = [NoRes EXCEPT !.op = "IO", !.conn = c,
                           !.err = IF streamCloses[c] = 0 /\ sessAlive[connSess[c]] = "live"
                                     THEN "nil" ELSE "ioErr"]
  /\ UNCHANGED <<m, tunvars, sessAlive, connSess, pc, ctx, cl, arg, dials, nconns,
                 histvars, hist, last, clean, ncalls>>
  /\ UNCHANGED <<cachevars, sidevars>>

\* connector.Connect(ctx) of a connector handed out by OpenConnector: the
\* Backend's connector dials with the tunnel's DialContext
CallConnect(w, k, c) ==
  /\ connectors[k] # NoConnector
  /\ CallDialContext(w, c)

\* connector.Driver(): the wrapper of the atNew form reports the tunnel,
\* the Backend's connector handed out as it is reports its native driver
DriverOf(k) == IF form = "atNew" THEN "tunnel" ELSE "backend"

\* Open(dsn) of the Backend's native driver: a connection made without
\* the tunnel's dialer
NativeOpen(w, s) ==
  /\ pc[w] = "idle"
  /\ err' = (IF BackendAccepts(<<>>, s) THEN "nil" ELSE "dsnErr")
  /\ cres' = [NoRes EXCEPT !.op = "DriverOpen", !.key = s, !.err = err',
                           !.via = IF err' = "nil" THEN "native" ELSE "none"]
  /\ UNCHANGED <<m, tunvars, sessAlive, connSess, pc, ctx, cl, arg, dials, nconns,
                 histvars, hist, last, clean, ncalls, mConn, connectors,
                 ignoreSetDeadlineRequest, oarg, backendCalls, flagConns, form, sidevars>>

\* connector.Driver().Open(dsn) on a connector handed out by OpenConnector
CallDriverOpen(w, k, s) ==
  /\ connectors[k] # NoConnector
  /\ IF DriverOf(k) = "tunnel" THEN CallOpen(w, s) ELSE NativeOpen(w, s)

CallIgnoreSetDeadlineRequest(w, val) ==
  CallConn(w, "IG_body", [NoArg EXCEPT !.op = "IgnoreSetDeadlineRequest", !.val = val])

\* tun.ignoreSetDeadlineRequest = val
IgnoreSetDeadlineRequest(w) ==
  /\ pc[w] = "IG_body" /\ mConn = w
  /\ ignoreSetDeadlineRequest' = oarg.val
  /\ flagConns' = nconns
  /\ err' = "nil"
  /\ cres' = [NoRes EXCEPT !.op = oarg.op]
  /\ ReturnConn(w)
  /\ UNCHANGED <<connectors, backendCalls>>

DeadlineKinds == {"SetDeadline", "SetReadDeadline", "SetWriteDeadline"}

\* sc.SetDeadline(tm), sc.SetReadDeadline(tm), sc.SetWriteDeadline(tm) on
\* a connection made by the tunnel: sc.tunnel.handleDeadline(tm, ...)
CallSetDeadline(w, c, k) ==
  /\ c \in 1..nconns
  /\ CallConn(w, "DL_body", [NoArg EXCEPT !.op = k, !.conn = c])

\* the method of the stream handed to handleDeadline
StreamMethod(k) == k

\* variant: the test of the flag is inverted
CallsStream_Inverted == ignoreSetDeadlineRequest

\* if !tun.ignoreSetDeadlineRequest
CallsStream == ~ignoreSetDeadlineRequest

\* the stream of an ssh channel supports no deadline
DeadlineNotSupported == "ssh: tcpChan: deadline not supported"

\* handleDeadline under tun.mConn
handleDeadline(w) ==
  /\ pc[w] = "DL_body" /\ mConn = w
  /\ err' = (IF CallsStream THEN DeadlineNotSupported ELSE "nil")
  /\ cres' = [NoRes EXCEPT !.op = oarg.op, !.conn = oarg.conn, !.err = err',
                           !.called = IF CallsStream THEN StreamMethod(oarg.op)
                                                     ELSE "none"]
  /\ ReturnConn(w)
  /\ UNCHANGED <<connectors, ignoreSetDeadlineRequest, backendCalls, flagConns>>

Next ==
  \/ \E p \in Procs : Lock(p)
  \/ \E w \in Workers, c \in {"live", "done"} : CallDialContext(w, c)
  \/ \E w \in Workers : DialSelect(w)
  \/ \E w \in Workers : DialHandshake(w)
  \/ \E w \in Workers : DialPostcheck(w)
  \/ \E w \in Workers : getNetConn(w)
  \/ \E w \in Workers : CallClose(w)
  \/ \E p \in Procs : resetSelect(p)
  \/ \E p \in Procs : resetConns(p)
  \/ \E p \in Procs : resetClient(p)
  \/ \E w \in Workers, c \in Conns : CallConnClose(w, c)
  \/ \E w \in Workers : sshConnClose(w)
  \/ \E w \in Workers : CallConnCount(w)
  \/ \E w \in Workers : ConnCount(w)
  \/ \E s \in Sessions : WatcherWait(s)
  \/ \E s \in Sessions : WatcherCheck(s)
  \/ \E s \in Sessions : SessionDies(s)
  \/ \E w \in Workers : CancelCtx(w)
  \/ \E c \in Conns : CancelReturned(c)

Spec == Init /\ [][Next]_vars

\* the connector side of a tunnel of either form, with the dials that
\* its connectors make: connectors are made and cached, they connect
\* through DialContext, deadlines are set on the connections made
NextC ==
  \/ \E w \in Workers, d \in DriverNames, s \in Dsns : CallOpenConnector(w, d, s)
  \/ \E w \in Workers, s \in Dsns : CallOpen(w, s)
  \/ \E w \in Workers : OpenConnector(w)
  \/ \E w \in Workers, k \in Keys, c \in {"live", "done"} : CallConnect(w, k, c)
  \/ \E w \in Workers, k \in Keys, s \in Dsns : CallDriverOpen(w, k, s)
  \/ \E w \in Workers, val \in BOOLEAN : CallIgnoreSetDeadlineRequest(w, val)
  \/ \E w \in Workers : IgnoreSetDeadlineRequest(w)
  \/ \E w \in Workers, c \in Conns, k \in DeadlineKinds : CallSetDeadline(w, c, k)
  \/ \E w \in Workers : handleDeadline(w)
  \/ \E p \in Procs : Lock(p)
  \/ \E w \in Workers : DialSelect(w)
  \/ \E w \in Workers : DialHandshake(w)
  \/ \E w \in Workers : DialPostcheck(w)
  \/ \E w \in Workers : getNetConn(w)

CacheSpec == InitC /\ [][NextC]_vars

\* ---- New ----

\* strings.Trim(s, " "): the leading and the trailing spaces are cut off
RECURSIVE TrimLeft(_)
TrimLeft(s) == IF s # <<>> /\ Head(s) = " " THEN TrimLeft(Tail(s)) ELSE s
RECURSIVE TrimRight(_)
TrimRight(s) ==
  IF s # <<>> /\ s[Len(s)] = " " THEN TrimRight(SubSeq(s, 1, Len(s) - 1)) ELSE s
Trim(s) == TrimRight(TrimLeft(s))

\* the first and the last position of ch in s, 0 when it does not occur
IndexByte(s, ch) ==
  IF \E i \in 1..Len(s) : s[i] = ch
    THEN CHOOSE i \in 1..Len(s) : s[i] = ch /\ \A j \in 1..(i - 1) : s[j] # ch
    ELSE 0
LastIndexByte(s, ch) ==
  IF \E i \in 1..Len(s) : s[i] = ch
    THEN CHOOSE i \in 1..Len(s) : s[i] = ch /\ \A j \in (i + 1)..Len(s) : s[j] # ch
    ELSE 0

\* the last checks of net.SplitHostPort: no '[' from position j on, no ']'
\* from position k on
StrayBracket(a, j, k) ==
  IF IndexByte(SubSeq(a, j, Len(a)), "[") # 0 THEN "unexpected '[' in address"
  ELSE IF IndexByte(SubSeq(a, k, Len(a)), "]") # 0 THEN "unexpected ']' in address"
  ELSE "nil"

\* the error of net.SplitHostPort(a): the port starts after the last
\* colon; a host that starts with '[' ends at the first ']', which must be
\* just before that colon; any other host has no colon
SplitHostPort(a) ==
  LET i == LastIndexByte(a, ":")
      end == IndexByte(a, "]")
  IN IF i = 0 THEN "missing port in address"
     ELSE IF a[1] = "["
       THEN IF end = 0 THEN "missing ']' in address"
            ELSE IF end = Len(a) THEN "missing port in address"
            ELSE IF end + 1 = i THEN StrayBracket(a, 2, end + 1)
            ELSE IF a[end + 1] = ":" THEN "too many colons in address"
            ELSE "missing port in address"
       ELSE IF IndexByte(SubSeq(a, 1, i - 1), ":") # 0
              THEN "too many colons in address"
              ELSE StrayBracket(a, 1, 1)

\* the checks of New in their order; the Backend is an argument, and
\* checked, only where it is given to New
NewErr(f, a) ==
  IF a.cfg = "nil" THEN "clientConfig may not be nil"
  ELSE IF Trim(a.addr) = <<>> THEN "remoteAddr may not be empty"
  ELSE IF SplitHostPort(a.addr) # "nil" THEN "invalid address"
  ELSE IF f = "atNew" /\ a.drv = "nil" THEN "tunnelDriver may not be nil"
  ELSE "nil"

\* New(clientConfig, remoteHostPort), New(tunnelDriver, clientConfig,
\* remoteHostPort): on success the reset channel is made and closed and
\* the tunnel is returned with empty maps; nothing is dialed
New ==
  /\ newRes = NoNewRes
  /\ newRes' = [tun |-> IF NewErr(form, newArgs) = "nil" THEN "tunnel" ELSE "nil",
                err |-> NewErr(form, newArgs)]
  /\ closedChans' = IF NewErr(form, newArgs) = "nil" THEN {resetChan} ELSE closedChans
  /\ UNCHANGED <<m, resetChan, client, sshconns, sessAlive, connSess, pc, ctx, cl,
                 arg, dials, nconns, histvars, hist, last, clean, ncalls, err,
                 cachevars, cres, newArgs, configvars, regvars, dialArgs, chanOpen>>

\* a caller with or without a Backend and an ssh.ClientConfig, and any
\* remote address; no tunnel exists yet
InitN ==
  /\ TunZero /\ closedChans = {}
  /\ form \in Forms
  /\ newArgs \in [drv : {"nil", "driver"}, cfg : {"nil", "cfg"}, addr : AddrStrings]
  /\ newRes = NoNewRes
  /\ ConfigIdle
  /\ RegIdle
  /\ dialArgs = NoDialArgs
  /\ chanOpen = NoChan

NextN == New

NewSpec == InitN /\ [][NextN]_vars

\* ---- TunnelConfig.DatabaseMap ----

\* the orders in which range tc.Datasources may visit the datasources
Orders == {o \in [Names -> Names] : \A i, j \in Names : o[i] = o[j] => i = j}

\* the first datasource visited in order o that stops the loop, 0 if none
FirstBad(o) ==
  IF \E i \in Names : tc.ds[o[i]] # "ok"
    THEN CHOOSE i \in Names : tc.ds[o[i]] # "ok" /\ \A j \in 1..(i - 1) : tc.ds[o[j]] = "ok"
    ELSE 0

\* tc.dbMap when the loop ends: the datasources visited before the one
\* that stopped it
LoopMap(o) ==
  IF FirstBad(o) = 0 THEN Names ELSE {o[j] : j \in 1..(FirstBad(o) - 1)}

\* the error of the loop
LoopErr(o) == IF FirstBad(o) = 0 THEN "nil" ELSE tc.ds[o[FirstBad(o)]]

\* tc.closeDBs(tun) is called on an empty connection string and on an
\* OpenConnector error, not on a driver that is not registered
LoopCloses(o) == LoopErr(o) \in {"emptyDsn", "rejected"}

\* tc.dbMap = make(map[string]*sql.DB) before the loop; no error return
\* sets it back to nil
KeptMap(o) == [made |-> TRUE, dbMap |-> LoopMap(o)]

\* the Backends asked for a connector: the ones of the datasources in the
\* map and the one that returned an error
LoopOpens(o) == Cardinality(LoopMap(o)) + (IF LoopErr(o) = "rejected" THEN 1 ELSE 0)

\* variant: the map is built again on every call
MapCached_Never == FALSE

\* if tc.dbMap != nil { return tc.dbMap, nil }
MapCached == tc.made

\* the body of tc.DatabaseMap(), all of it under tc.m
DatabaseMapBody ==
  /\ tc # NoConfig
  /\ tc.calls < MaxCalls
  /\ IF MapCached
       THEN /\ dbRes' = [some |-> TRUE, map |-> tc.dbMap, err |-> "nil", id |-> tc.tunnels]
            /\ tc' = [tc EXCEPT !.calls = @ + 1]
     ELSE IF tc.pre # "ok"
       THEN /\ dbRes' = [some |-> FALSE, map |-> {}, err |-> tc.pre, id |-> 0]
            /\ tc' = [tc EXCEPT !.calls = @ + 1]
     ELSE \E o \in Orders :
            /\ dbRes' = IF LoopErr(o) = "nil"
                           THEN [some |-> TRUE, map |-> LoopMap(o), err |-> "nil",
                                 id |-> tc.tunnels + 1]
                           ELSE [some |-> FALSE, map |-> {}, err |-> LoopErr(o), id |-> 0]
            /\ tc' = [tc EXCEPT !.made = KeptMap(o).made, !.dbMap = KeptMap(o).dbMap,
                                !.closed = LoopCloses(o),
                                !.tunnels = @ + 1, !.opens = @ + LoopOpens(o),
                                !.calls = @ + 1]
  /\ UNCHANGED <<m, tunvars, sessAlive, connSess, pc, ctx, cl, arg, dials, nconns,
                 histvars, hist, last, clean, ncalls, err, cachevars, cres,
                 newArgs, newRes, regvars, dialArgs, chanOpen>>

\* tc.DatabaseMap()
DatabaseMap ==
  /\ DatabaseMapBody
  /\ UNCHANGED dbGot

\* tc.DB(dbname): the DB of that name in the map DatabaseMap returns
DB(n) ==
  /\ DatabaseMapBody
  /\ dbGot' = IF dbRes'.err # "nil" THEN [db |-> 0, err |-> dbRes'.err]
              ELSE IF n \in dbRes'.map THEN [db |-> n, err |-> "nil"]
              ELSE [db |-> 0, err |-> "noName"]

\* any TunnelConfig with MaxDatasources datasources, before its first
\* DatabaseMap call
InitDB ==
  /\ TunInit /\ form = "perCall"
  /\ newArgs = NoNewArgs
  /\ newRes = NoNewRes
  /\ tc \in [pre : PreKinds, ds : [Names -> DsKinds], made : {FALSE}, dbMap : {{}},
              closed : {FALSE}, tunnels : {0}, opens : {0}, calls : {0}]
  /\ dbRes = NoDbRes
  /\ dbGot = NoDbGot
  /\ RegIdle
  /\ dialArgs = NoDialArgs
  /\ chanOpen = NoChan

NextDB ==
  \/ DatabaseMap
  \/ \E n \in Names \cup {0} : DB(n)

ConfigSpec == InitDB /\ [][NextDB]_vars

\* ---- the driver registry: RegisterDriver, Datasource.Driver ----

\* a worker calls RegisterDriver(k, driver)
CallRegisterDriver(w, k) ==
  /\ reg[w].pc = "idle"
  /\ reg' = [reg EXCEPT ![w] = [pc |-> "RD_lock", key |-> k, res |-> "none"]]
  /\ UNCHANGED <<driverMap, mDriverMap>>
  /\ UNCHANGED <<corevars, newArgs, newRes, configvars, dialArgs, chanOpen>>

\* mDriverMap.Lock()
RegisterLock(w) ==
  /\ reg[w].pc = "RD_lock" /\ mDriverMap = 0
  /\ mDriverMap' = w
  /\ reg' = [reg EXCEPT ![w].pc = "RD_write"]
  /\ UNCHANGED driverMap
  /\ UNCHANGED <<corevars, newArgs, newRes, configvars, dialArgs, chanOpen>>

\* driverMap[key] = driver
RegisterWrite(w) ==
  /\ reg[w].pc = "RD_write"
  /\ driverMap' = driverMap \cup {reg[w].key}
  /\ reg' = [reg EXCEPT ![w].pc = "RD_unlock"]
  /\ UNCHANGED mDriverMap
  /\ UNCHANGED <<corevars, newArgs, newRes, configvars, dialArgs, chanOpen>>

\* mDriverMap.Unlock()
RegisterUnlock(w) ==
  /\ reg[w].pc = "RD_unlock"
  /\ mDriverMap' = 0
  /\ reg' = [reg EXCEPT ![w] = NoReg]
  /\ UNCHANGED driverMap
  /\ UNCHANGED <<corevars, newArgs, newRes, configvars, dialArgs, chanOpen>>

\* a worker calls Datasource{DriverName: k}.Driver(), as DatabaseMap does
CallDriver(w, k) ==
  /\ reg[w].pc = "idle"
  /\ reg' = [reg EXCEPT ![w] = [pc |-> "DR_read", key |-> k, res |-> "none"]]
  /\ UNCHANGED <<driverMap, mDriverMap>>
  /\ UNCHANGED <<corevars, newArgs, newRes, configvars, dialArgs, chanOpen>>

\* a write of the map by another worker is pending while w reads it
RacingWrite(w) == \E v \in Workers \ {w} : reg[v].pc = "RD_write"

\* what the map read gives: the entry, unless a write races with it; then
\* it may see or miss the entry, or the runtime stops the program
ReadOutcomes(w) ==
  IF RacingWrite(w) THEN {"driver", "notFound", "fatal"}
  ELSE IF reg[w].key \in driverMap THEN {"driver"} ELSE {"notFound"}

\* drv := driverMap[cd.DriverName], with no lock taken, and the return
DriverRead(w) ==
  /\ reg[w].pc = "DR_read"
  /\ \E r \in ReadOutcomes(w) :
       reg' = [reg EXCEPT ![w] = [pc |-> "idle", key |-> reg[w].key, res |-> r]]
  /\ UNCHANGED <<driverMap, mDriverMap>>
  /\ UNCHANGED <<corevars, newArgs, newRes, configvars, dialArgs, chanOpen>>

NextR ==
  \/ \E w \in Workers, k \in DriverKeys : CallRegisterDriver(w, k)
  \/ \E w \in Workers : RegisterLock(w)
  \/ \E w \in Workers : RegisterWrite(w)
  \/ \E w \in Workers : RegisterUnlock(w)
  \/ \E w \in Workers, k \in DriverKeys : CallDriver(w, k)
  \/ \E w \in Workers : DriverRead(w)

RegistrySpec == Init /\ [][NextR]_vars

\* ---- the network of the forwarded channel ----

\* variant: the channel is opened on the network the caller names
network_FromCaller(net, addr) == net

\* network := "tcp"; if len(addr) > 0 && addr[0] == '/' { network = "unix" }
network(net, addr) == IF Len(addr) > 0 /\ addr[1] = "/" THEN "unix" ELSE "tcp"

\* DialContext(ctx, net, addr) reaching tun.client.Dial(network, addr)
OpenChannel ==
  /\ dialArgs # NoDialArgs /\ chanOpen = NoChan
  /\ chanOpen' = [network |-> network(dialArgs.net, dialArgs.addr),
                  addr |-> dialArgs.addr]
  /\ UNCHANGED <<corevars, newArgs, newRes, configvars, regvars, dialArgs>>

\* a DialContext with any of the net arguments and addresses tried
InitNet ==
  /\ TunInit /\ form = "perCall"
  /\ newArgs = NoNewArgs
  /\ newRes = NoNewRes
  /\ ConfigIdle
  /\ RegIdle
  /\ dialArgs \in [net : Networks, addr : NetAddrs]
  /\ chanOpen = NoChan

NextNet == OpenChannel

NetSpec == InitNet /\ [][NextNet]_vars

TypeOK ==
  /\ m \in {0} \cup Procs
  /\ resetChan \in Chans
  /\ closedChans \subseteq Chans
  /\ client \in {0} \cup Sessions
  /\ sshconns \subseteq Conns
  /\ dials \in 0..MaxDials
  /\ nconns \in 0..MaxConns
  /\ err \in {"nil", "hsErr", "chanErr", "closeErr", "streamErr", "waitErr",
               "dsnErr", DeadlineNotSupported}
  /\ mConn \in {0} \cup Workers
  /\ ignoreSetDeadlineRequest \in BOOLEAN
  /\ flagConns \in 0..MaxConns
  /\ form \in Forms
  /\ \A k \in Keys : connectors[k] = NoConnector
                        \/ <<connectors[k].drv, connectors[k].dsn>> \in Requests

\* ---- fairness: a goroutine that holds tun.m keeps running, the watcher
\* goroutine is scheduled, and a goroutine waiting for tun.m (sync.Mutex
\* hands the lock to a starving waiter) eventually gets it.  Callers are
\* never obliged to make a call and the environment never has to fail.
Holder(p) ==
  \/ resetSelect(p) \/ resetConns(p) \/ resetClient(p)
  \/ (p \in Workers /\ (DialSelect(p) \/ DialHandshake(p) \/ DialPostcheck(p)
                          \/ getNetConn(p) \/ sshConnClose(p) \/ ConnCount(p)))

Fairness ==
  /\ \A p \in Procs : WF_vars(Holder(p))
  /\ \A p \in Procs : SF_vars(Lock(p))
  /\ \A s \in Sessions : WF_vars(WatcherWait(s)) /\ WF_vars(WatcherCheck(s))

LiveSpec == Spec /\ Fairness

\* the connection strings of the OpenConnector calls made below: one that
\* the Backend accepts and one that it rejects
LockDsn == <<"b", ":", "c">>
RejectedDsn == <<"E", "R", "R">>

\* the operations of both lock groups together, with a Backend that may
\* dial inside OpenConnector and with reads and writes on the connections

NextL ==
  \/ \E p \in Procs : Lock(p)
  \/ \E w \in Workers : CallDialContext(w, "live")
  \/ \E w \in Workers : DialSelect(w)
  \/ \E w \in Workers : DialHandshake(w)
  \/ \E w \in Workers : DialPostcheck(w)
  \/ \E w \in Workers : getNetConn(w)
  \/ \E w \in Workers : CallClose(w)
  \/ \E p \in Procs : resetSelect(p)
  \/ \E p \in Procs : resetConns(p)
  \/ \E p \in Procs : resetClient(p)
  \/ \E w \in Workers, c \in Conns : CallConnClose(w, c)
  \/ \E w \in Workers : sshConnClose(w)
  \/ \E w \in Workers : CallConnCount(w)
  \/ \E w \in Workers : ConnCount(w)
  \/ \E s \in Sessions : WatcherWait(s)
  \/ \E s \in Sessions : WatcherCheck(s)
  \/ \E w \in Workers : CallOpenConnector(w, TunnelDriver, LockDsn)
  \/ \E w \in Workers : OpenConnector(w)
  \/ \E w \in Workers : BackendDial(w)
  \/ \E w \in Workers : CallIgnoreSetDeadlineRequest(w, TRUE)
  \/ \E w \in Workers : IgnoreSetDeadlineRequest(w)
  \/ \E w \in Workers, c \in Conns : CallSetDeadline(w, c, "SetDeadline")
  \/ \E w \in Workers : handleDeadline(w)
  \/ \E w \in Workers, c \in Conns : ConnIO(w, c)

\* the holder of tun.mConn takes its step
ConnHolder(w) ==
  OpenConnector(w) \/ IgnoreSetDeadlineRequest(w) \/ handleDeadline(w)

LockSpec == Init /\ [][NextL]_vars

\* the operations of both lock groups where every DialContext is made by
\* a Backend inside OpenConnector, that is, with tun.mConn held; the
\* Backend rejects the connection string after its dial, so that every
\* OpenConnector call reaches the Backend
NextD ==
  \/ \E p \in Procs : Lock(p)
  \/ \E w \in Workers : DialSelect(w)
  \/ \E w \in Workers : DialHandshake(w)
  \/ \E w \in Workers : DialPostcheck(w)
  \/ \E w \in Workers : getNetConn(w)
  \/ \E w \in Workers : CallClose(w)
  \/ \E p \in Procs : resetSelect(p)
  \/ \E p \in Procs : resetConns(p)
  \/ \E p \in Procs : resetClient(p)
  \/ \E w \in Workers, c \in Conns : CallConnClose(w, c)
  \/ \E w \in Workers : sshConnClose(w)
  \/ \E w \in Workers : CallConnCount(w)
  \/ \E w \in Workers : ConnCount(w)
  \/ \E s \in Sessions : WatcherWait(s)
  \/ \E s \in Sessions : WatcherCheck(s)
  \/ \E w \in Workers : CallOpenConnector(w, TunnelDriver, RejectedDsn)
  \/ \E w \in Workers : OpenConnector(w)
  \/ \E w \in Workers : BackendDial(w)
  \/ \E w \in Workers : CallIgnoreSetDeadlineRequest(w, TRUE)
  \/ \E w \in Workers : IgnoreSetDeadlineRequest(w)
  \/ \E w \in Workers, c \in Conns : CallSetDeadline(w, c, "SetDeadline")
  \/ \E w \in Workers : handleDeadline(w)

\* every step that returns is taken, and sync.Mutex starves no waiter
DeadlockFreeSpec ==
  /\ Init /\ [][NextD]_vars
  /\ Fairness
  /\ \A w \in Workers : WF_vars(ConnHolder(w))

\* ---- properties ----

Connected == ~ResetSignalClosed
InReset == ResetSignalClosed /\ sshconns = {}

\* a call of worker w takes its next step
Steps(w) == pc'[w] # pc[w]

\* C1: as long as only DialContext calls with live contexts have been made
\* and nothing has failed, at most one handshake has been performed, and
\* once all n calls have returned there has been exactly one handshake,
\* every call has produced one connection and ConnCount() is n.
C1_SingleHandshake ==
  clean =>
    /\ dials <= 1
    /\ nconns <= ncalls
    /\ (Pending = 0 /\ ncalls >= 1) =>
         /\ dials = 1
         /\ nconns = ncalls
         /\ sshconns = 1..ncalls
         /\ last = "ok"

C1_Witness ==
  clean /\ Pending = 0 /\ ncalls >= 2 /\ Cardinality(sshconns) = ncalls /\ dials = 1

\* C2: every session stored by DialContext got exactly one watcher; every
\* reset channel is closed by exactly one effective reset, every ssh client
\* is closed at most once and a stream still tracked has never been closed.
C2_OneResetPerEpoch ==
  /\ \A s \in Sessions :
       /\ watcherStarts[s] <= 1
       /\ sessCloses[s] <= 1
       /\ (pc[WatcherOf(s)] # "unborn" <=> watcherStarts[s] = 1)
       /\ (NewResetChan(s) \in closedChans => effResets[NewResetChan(s)] = 1)
  /\ (client # 0 => watcherStarts[client] = 1)
  /\ \A ch \in Chans : effResets[ch] <= 1
  /\ effResets[0] = 0
  /\ \A c \in sshconns : streamCloses[c] = 0

\* the watcher holds tun.m for its tun.Close() although the epoch it
\* watched has already been reset by somebody else
C2_Witness ==
  \E s \in Sessions :
    /\ pc[WatcherOf(s)] = "R_select" /\ m = WatcherOf(s)
    /\ resetChan = s /\ s \in closedChans
    /\ effResets[s] = 1 /\ sessCloses[s] = 1

DialFromResetRedials ==
  \A w \in Workers :
    (pc[w] = "D_getNetConn" /\ m = w /\ hist.pre = "RESET") =>
       /\ hist.hs
       /\ client = cl /\ resetChan = NewResetChan(cl)
       /\ sessCloses[client] = 0

SessionLost ==
  \E s \in Sessions :
    client = s /\ resetChan = NewResetChan(s) /\ Connected /\ sessAlive[s] = "term"

\* C4: once the session of a CONNECTED tunnel has terminated the tunnel
\* eventually is in RESET with no tracked connection and tun.m free, and a
\* dial that starts in RESET performs a fresh handshake.
C4_SessionLossResets ==
  /\ SessionLost ~> (m = 0 /\ InReset)
  /\ []DialFromResetRedials

\* the watcher is in the middle of the reset of its own epoch, no caller
\* is active, and both tracked connections have been closed
C4_Witness ==
  \E s \in Sessions :
    /\ pc[WatcherOf(s)] = "R_client" /\ resetChan = s
    /\ \A w \in Workers : pc[w] = "idle"
    /\ sshconns = {} /\ nconns >= 2
    /\ \A c \in 1..nconns : connSess[c] = s /\ streamCloses[c] = 1

\* C5: the Close of the only tracked connection goes into an effective
\* reset; when a tracked connection's Close returns from reset the tunnel
\* is in RESET with no tracked connection and its session closed; and a
\* dial with a live context that finds the tunnel in RESET handshakes.
C5_DrainToZero ==
  [][\A w \in Workers :
       /\ (pc[w] = "SC_body" /\ m = w /\ sshconns = {arg[w]} /\ Steps(w)) =>
            (pc'[w] = "R_select" /\ Connected)
       /\ (pc[w] \in {"R_select", "R_client"} /\ m = w /\ arg[w] # 0 /\ m' = 0) =>
            /\ sshconns' = {} /\ resetChan' \in closedChans'
            /\ client' # 0 /\ sessAlive'[client'] = "term"
       /\ (pc[w] = "D_select" /\ m = w /\ InReset /\ ~CtxDone(w) /\ Steps(w)) =>
            pc'[w] = "D_handshake"
    ]_vars

\* all connections made so far have been closed one by one, Close was
\* never called on the tunnel, and the tunnel is in RESET
C5_Witness ==
  /\ m = 0 /\ InReset /\ nconns >= 2
  /\ \A w \in Workers : pc[w] = "idle"
  /\ \A c \in 1..nconns : streamCloses[c] = 1
  /\ \A s \in Sessions : pc[WatcherOf(s)] \in {"unborn", "W_wait"}
  /\ last = "closed"

\* C6: the Close of a tracked connection while another one remains removes
\* that connection, closes its stream once and nothing else: the other
\* connections stay tracked and unclosed, tun.client, the session and the
\* reset channel are untouched and the tunnel stays CONNECTED.
C6_CloseOneOfMany ==
  [][\A w \in Workers :
       (pc[w] = "SC_body" /\ m = w /\ arg[w] \in sshconns
          /\ Cardinality(sshconns) > 1 /\ Steps(w)) =>
         /\ sshconns' = sshconns \ {arg[w]}
         /\ Cardinality(sshconns') = Cardinality(sshconns) - 1
         /\ streamCloses' = [streamCloses EXCEPT ![arg[w]] = 1]
         /\ UNCHANGED <<resetChan, closedChans, client, sessAlive, sessCloses>>
         /\ ~(resetChan' \in closedChans')
         /\ pc'[w] = "idle" /\ m' = 0
    ]_vars

C6_Witness ==
  /\ m = 0 /\ Connected /\ Cardinality(sshconns) = 1 /\ nconns >= 2
  /\ \E c \in 1..nconns : c \notin sshconns /\ streamCloses[c] = 1
                          /\ connSess[c] = client
  /\ sessCloses[client] = 0

\* C7: a DialContext whose context is already done when it reaches its
\* select returns the context's error at once: no handshake, no channel,
\* tun.client, the reset channel and the tracked set unchanged.
C7_DoneContextNoSideEffect ==
  [][\A w \in Workers :
       (pc[w] = "D_select" /\ m = w /\ CtxDone(w) /\ Steps(w)) =>
         /\ pc'[w] = "idle" /\ last' = "ctxErr"
         /\ UNCHANGED <<tunvars, dials, nconns, sessAlive>>
    ]_vars

\* C8: when the context is done once the handshake from RESET has
\* succeeded, the new client is closed and not stored, no watcher is
\* started, the reset channel stays closed, the tracked set is unchanged
\* and the call returns the context's error.
C8_CancelDuringHandshake ==
  [][\A w \in Workers :
       (pc[w] = "D_postcheck" /\ m = w /\ CtxDone(w) /\ Steps(w)) =>
         /\ pc'[w] = "idle" /\ last' = "ctxErr" /\ m' = 0
         /\ sessAlive'[cl] = "term" /\ sessCloses'[cl] = 1
         /\ client' # cl
         /\ UNCHANGED <<tunvars, watcherStarts>>
         /\ watcherStarts'[cl] = 0 /\ pc'[WatcherOf(cl)] = "unborn"
         /\ resetChan' \in closedChans' /\ sshconns' = {}
    ]_vars

\* a handshake was aborted: its client is closed, was never stored and has
\* no watcher, and the tunnel is still in RESET
C8_Witness ==
  /\ m = 0 /\ last = "ctxErr" /\ InReset
  /\ \E s \in Sessions :
       /\ sessAlive[s] = "term" /\ sessCloses[s] = 1
       /\ pc[WatcherOf(s)] = "unborn" /\ client # s

\* C9 as stated: the DialContext (with a live context) that follows a dial
\* failed by the handshake or by the channel open performs a handshake.
C9_RedialAfterAnyDialError ==
  [][\A w \in Workers :
       (pc[w] = "D_select" /\ m = w /\ last \in {"hsErr", "chanErr"}
          /\ ~CtxDone(w) /\ Steps(w)) =>
         pc'[w] = "D_handshake"
    ]_vars

\* C9 amended: a failed dial releases tun.m and starts no handshake of its
\* own; after a failed handshake the tunnel is in RESET and the following
\* DialContext with a live context handshakes again; after a failed channel
\* open the tunnel is still CONNECTED and the following DialContext goes
\* to the channel open over the stored session, without a handshake.
C9_AfterDialError ==
  [][\A w \in Workers :
       /\ (m = w /\ last' \in {"hsErr", "chanErr"} /\ m' = 0) =>
            /\ pc'[w] = "idle"
            /\ (last' = "hsErr" => InReset' /\ UNCHANGED tunvars)
            /\ (last' = "chanErr" => ~(resetChan' \in closedChans')
                                     /\ client' # 0 /\ UNCHANGED tunvars)
       /\ (pc[w] = "D_select" /\ m = w /\ ~CtxDone(w) /\ Steps(w)) =>
            /\ (last = "hsErr" => InReset /\ pc'[w] = "D_handshake")
            /\ (last = "chanErr" =>
                  Connected /\ pc'[w] = "D_getNetConn" /\ dials' = dials)
       /\ (dials' # dials) => (\E v \in Workers : pc[v] = "D_handshake" /\ m = v)
    ]_vars

\* a dial has passed its select right after a failed channel open
C9_Witness ==
  \E w \in Workers :
    /\ pc[w] = "D_getNetConn" /\ m = w /\ last = "chanErr"
    /\ hist.pre = "CONNECTED" /\ ~hist.hs /\ ~CtxDone(w)

\* C10 as stated: with tun.m free, the reset channel is closed iff
\* tun.client is nil and the tracked set is empty.
C10_ClosedIffNoHandle ==
  m = 0 => (ResetSignalClosed <=> (client = 0 /\ sshconns = {}))

\* C10 amended: with tun.m free, the reset channel is closed iff no session
\* is stored that the tunnel has not closed (tun.client is nil or refers to
\* a client the tunnel has closed; reset does not clear the field), and
\* whenever the reset channel is closed the tracked set is empty.
C10_ClosedIffNoOpenSession ==
  m = 0 =>
    /\ ResetSignalClosed <=> (client = 0 \/ sessCloses[client] >= 1)
    /\ ResetSignalClosed => sshconns = {}
    /\ Connected => resetChan = NewResetChan(client)

\* RESET after an epoch: the field still holds the closed client
C10_Witness ==
  /\ m = 0 /\ InReset /\ client # 0 /\ sessCloses[client] = 1
  /\ effResets[NewResetChan(client)] = 1

\* the positions at which a process reads or writes tun.resetChan,
\* tun.client or tun.sshconns
TunHeldPcs == {"D_select", "D_handshake", "D_postcheck", "D_getNetConn",
               "R_select", "R_conns", "R_client", "SC_body", "CC_read"}

\* C11: the DialContext calls are totally ordered by tun.m: a DialContext
\* past its Lock holds tun.m at its select, handshake, second select and
\* channel open, and no other operation (DialContext, Close, a tracked
\* connection's Close, ConnCount, the watcher's reset) is past its Lock at
\* the same time.
C11_DialsTotallyOrdered ==
  /\ \A w \in Workers : pc[w] \in DialPcs \ {"D_lock"} => m = w
  /\ Cardinality({p \in Procs : pc[p] \in TunHeldPcs}) <= 1
  /\ (m = 0 <=> \A p \in Procs : pc[p] \notin TunHeldPcs)

\* a dial is in its handshake while a Close() and the watcher of an
\* earlier session wait for tun.m
C11_Witness ==
  \E w, v \in Workers, s \in Sessions :
    /\ w # v /\ pc[w] = "D_handshake" /\ m = w
    /\ pc[v] = "C_lock" /\ pc[WatcherOf(s)] = "W_lock"

\* C13: a Close() that finds the tunnel in RESET, as the Close() before it
\* left it, returns no error and changes nothing: no stream and no session
\* is closed, the tracked set stays empty; and every Close() leaves the
\* tunnel in RESET with tun.m free.
C13_CloseTwice ==
  [][\A w \in Workers :
       /\ (pc[w] = "R_select" /\ m = w /\ arg[w] = 0 /\ ResetSignalClosed
             /\ Steps(w)) =>
            /\ pc'[w] = "idle" /\ m' = 0 /\ last' = "closed" /\ err' = "nil"
            /\ UNCHANGED <<tunvars, sessAlive, histvars, dials, nconns>>
            /\ InReset'
       /\ (pc[w] \in {"R_select", "R_client"} /\ m = w /\ arg[w] = 0 /\ m' = 0) =>
            (InReset' /\ pc'[w] = "idle")
    ]_vars

\* the second of two Close() calls in a row holds tun.m, after an epoch
\* that the first one ended
C13_Witness ==
  \E w \in Workers :
    /\ pc[w] = "R_select" /\ m = w /\ arg[w] = 0 /\ last = "closed"
    /\ InReset /\ client # 0 /\ sessCloses[client] = 1 /\ nconns >= 1
    /\ \A s \in Sessions : pc[WatcherOf(s)] \in {"unborn", "W_wait"}

\* C14: Close() gets tun.m in whatever state the tunnel is, also when no
\* dial was ever made, and leaves the tunnel in RESET; the dial of the
\* next Connect (live context) that finds it in RESET handshakes, and when
\* it succeeds its connection is the only tracked one.
C14_CloseNeverInvalidates ==
  [][\A w \in Workers :
       /\ (pc[w] = "C_lock" /\ m = 0) => ENABLED Lock(w)
       /\ (pc[w] \in {"R_select", "R_client"} /\ m = w /\ arg[w] = 0 /\ m' = 0) =>
            /\ InReset' /\ pc'[w] = "idle"
            /\ UNCHANGED connectors
       /\ (pc[w] = "D_select" /\ m = w /\ hist.pre = "RESET" /\ ~CtxDone(w)
             /\ Steps(w)) =>
            (pc'[w] = "D_handshake" /\ InReset)
       /\ (pc[w] = "D_getNetConn" /\ m = w /\ hist.pre = "RESET" /\ last' = "ok"
             /\ m' = 0) =>
            /\ hist.hs /\ sessAlive[client] = "live" /\ sessCloses[client] = 0
            /\ sshconns' = {nconns'} /\ Cardinality(sshconns') = 1
            /\ Connected'
    ]_vars

\* a Close() on a tunnel that never dialed has returned, and a dial made
\* after it has handshaken and tracks its connection
C14_Witness ==
  /\ m = 0 /\ last = "ok" /\ Connected /\ Cardinality(sshconns) = 1
  /\ dials = 1 /\ nconns = 1 /\ ~clean /\ ncalls = 0
  /\ \A w \in Workers : pc[w] = "idle"
  /\ \A s \in Sessions : sessCloses[s] = 0

\* C17: when the session's Close fails in the reset of a Close() call, the
\* call returns that error and the tunnel is in RESET all the same: reset
\* channel closed, tracked set empty, tun.m free; and the DialContext (live
\* context) that follows handshakes.
C17_CloseErrorStillResets ==
  [][\A w \in Workers :
       /\ (pc[w] = "R_client" /\ m = w /\ arg[w] = 0 /\ Steps(w)) =>
            /\ last' = (IF err' = "closeErr" THEN "closeErr" ELSE "closed")
            /\ pc'[w] = "idle" /\ m' = 0
            /\ resetChan' \in closedChans' /\ sshconns' = {}
       /\ (pc[w] = "D_select" /\ m = w /\ last = "closeErr" /\ ~CtxDone(w)
             /\ Steps(w)) =>
            (InReset /\ pc'[w] = "D_handshake")
    ]_vars

\* a dial is in its handshake right after a Close() that returned the
\* error of the session's Close
C17_Witness ==
  \E w \in Workers :
    /\ pc[w] = "D_handshake" /\ m = w /\ last = "closeErr"
    /\ hist.pre = "RESET" /\ client # 0 /\ sessCloses[client] = 1
    /\ \A s \in Sessions : pc[WatcherOf(s)] \in {"unborn", "W_wait"}

ConnHeldPcs == {"OC_body", "IG_body", "DL_body"}

RequestsOf(k) == {r \in Requests : CacheKey(r[1], r[2]) = k}

\* C15 as stated: the Backend is invoked at most once for every request,
\* whatever the connection string.
C15_BackendOncePerString ==
  \A r \in Requests : backendCalls[r] <= 1

\* C15 amended: a connection string that the Backend accepts is handed to
\* the Backend at most once per cache key, its connector is then stored
\* for good and every later OpenConnector with that key returns the
\* stored connector without a Backend call; a rejected connection string
\* stores nothing and goes to the Backend again on every call.
C15_AcceptedOncePerKey ==
  /\ [](\A k \in Keys :
          LET acc == {r \in RequestsOf(k) : BackendAccepts(r[1], r[2])}
              made == {r \in acc : backendCalls[r] > 0}
          IN /\ Cardinality(made) <= 1
             /\ \A r \in made : backendCalls[r] = 1
             /\ (connectors[k] # NoConnector <=> made # {})
             /\ \A r \in made : connectors[k] = [drv |-> r[1], dsn |-> r[2]])
  /\ [][\A w \in Workers :
          (pc[w] = "OC_body" /\ mConn = w /\ pc'[w] # pc[w]) =>
            LET r == <<oarg.drv, oarg.dsn>>
                k == CacheKey(oarg.drv, oarg.dsn) IN
            /\ (connectors[k] # NoConnector) =>
                 /\ cres'.connector = connectors[k] /\ cres'.err = "nil"
                 /\ UNCHANGED <<connectors, backendCalls>>
            /\ (connectors[k] = NoConnector /\ BackendAccepts(r[1], r[2])) =>
                 /\ cres'.connector = connectors'[k] /\ cres'.err = "nil"
                 /\ connectors'[k] = [drv |-> r[1], dsn |-> r[2]]
                 /\ backendCalls'[r] = 1
            /\ ~BackendAccepts(r[1], r[2]) /\ connectors[k] = NoConnector =>
                 /\ cres'.connector = NoConnector /\ cres'.err = "dsnErr"
                 /\ UNCHANGED connectors
                 /\ backendCalls'[r] = Bump(backendCalls[r])
            /\ \A j \in Keys \ {k} : connectors'[j] = connectors[j]
       ]_vars

\* an OpenConnector has just been answered from the cache, with the
\* connector that the only Backend call for its key made
C15_Witness ==
  \E r \in Requests :
    /\ cres.op = "OpenConnector" /\ cres.key = CacheKey(r[1], r[2])
    /\ cres.connector = connectors[cres.key] /\ cres.connector # NoConnector
    /\ backendCalls[<<cres.connector.drv, cres.connector.dsn>>] = 1
    /\ \E w \in Workers : pc[w] = "idle" /\ mConn = 0
    /\ \E q \in Requests : ~BackendAccepts(q[1], q[2]) /\ backendCalls[q] = 2

\* C16: SetDeadline, SetReadDeadline and SetWriteDeadline on a connection
\* made by the tunnel, with the flag as it is when handleDeadline reads
\* it: set, the call returns nil and no method of the stream is called;
\* clear, the stream's method of the same name is called and its
\* "deadline not supported" error is returned; the same for a connection
\* made before and for one made after the latest IgnoreSetDeadlineRequest.
C16_DeadlineSuppression ==
  [][\A w \in Workers :
       (pc[w] = "DL_body" /\ mConn = w /\ pc'[w] # pc[w]) =>
         /\ oarg.op \in DeadlineKinds /\ oarg.conn \in 1..nconns
         /\ cres'.op = oarg.op /\ cres'.conn = oarg.conn
         /\ ignoreSetDeadlineRequest =>
              (cres'.err = "nil" /\ cres'.called = "none" /\ err' = "nil")
         /\ ~ignoreSetDeadlineRequest =>
              /\ cres'.err = "ssh: tcpChan: deadline not supported"
              /\ cres'.called = oarg.op
         /\ UNCHANGED <<ignoreSetDeadlineRequest, tunvars, sessAlive>>
    ]_vars

\* SetWriteDeadline has just returned nil on a connection that was made
\* before the flag was set, another connection was made after it
C16_Witness ==
  /\ cres.op = "SetWriteDeadline" /\ cres.err = "nil" /\ cres.called = "none"
  /\ ignoreSetDeadlineRequest /\ flagConns = 1 /\ cres.conn = 1 /\ nconns = 2

\* C19: no connection got from a connector of OpenConnector, by Connect
\* or by Driver().Open(dsn), is made outside the tunnel's dialer.
C19_NoBypass ==
  cres.op = "DriverOpen" /\ cres.err = "nil" => cres.via = "tunnel"

\* C20: Open(dsn) does what OpenConnector(dsn) does to the cache, under
\* tun.mConn; when that returns an error Open returns it, the worker is
\* idle and no dial is made; else Open is where a Connect with a
\* background context starts, waiting for tun.m with a context that is
\* never done; session state and tracked set are untouched by the step,
\* and the dial that follows is the DialContext of any Connect.
C20_OpenIsOpenConnectorThenConnect ==
  [][\A w \in Workers :
       /\ (pc[w] = "OC_body" /\ mConn = w /\ oarg.op = "Open" /\ pc'[w] # pc[w]) =>
            /\ connectors' = OCConnectors
            /\ cres'.connector = OCReturned /\ cres'.err = OCErr
            /\ mConn' = 0
            /\ UNCHANGED <<m, tunvars, sessAlive, dials, nconns, connSess>>
            /\ (OCErr # "nil") =>
                 (pc'[w] = "idle" /\ err' = OCErr /\ UNCHANGED connectors)
            /\ (OCErr = "nil") =>
                 (pc'[w] = "D_lock" /\ ctx'[w] = "bg"
                    /\ connectors'[OCKey] # NoConnector)
       /\ (ctx[w] = "bg" /\ pc[w] \in DialPcs) =>
            (ctx'[w] = "bg" \/ pc'[w] = "idle")
       /\ (ctx[w] = "bg" /\ pc[w] = "D_select" /\ m = w /\ pc'[w] # pc[w]) =>
            pc'[w] = (IF ResetSignalClosed THEN "D_handshake" ELSE "D_getNetConn")
       /\ (ctx[w] = "bg" /\ pc[w] = "D_postcheck" /\ m = w /\ pc'[w] # pc[w]) =>
            (pc'[w] = "D_getNetConn" /\ client' = cl)
    ]_vars

\* an Open has connected: its connector is cached and its connection is
\* tracked; an Open of a rejected connection string has gone to the
\* Backend without a dial
C20_Witness ==
  /\ form = "atNew" /\ m = 0 /\ last = "ok" /\ nconns = 1 /\ sshconns = {1}
  /\ connectors[<<"b", ":", "c">>] # NoConnector
  /\ backendCalls[<<TunnelDriver, <<"E", "R", "R">>>>] >= 1 /\ dials = 1
  /\ ncalls = 0 /\ \A w \in Workers : pc[w] = "idle"

\* C25: the Close of a connection that is not in the tracked set closes
\* no tracked connection and no session and leaves the tracked set as it
\* is, up to and including the step of reset that closes the streams.
C25_StaleCloseHarmless ==
  [][\A w \in Workers :
       (pc[w] \in {"SC_body", "R_select", "R_conns"} /\ m = w /\ arg[w] # 0
          /\ arg[w] \notin sshconns /\ Steps(w)) =>
         /\ sshconns' = sshconns
         /\ \A c \in sshconns : streamCloses'[c] = streamCloses[c]
         /\ UNCHANGED <<sessCloses, sessAlive>>
    ]_vars

\* the processes that are inside reset
InResetCode(p) == pc[p] \in {"R_select", "R_conns", "R_client"}

\* C26: in an effective reset the reset channel is closed before any
\* stream is closed, the streams are closed and the map is cleared before
\* the session is closed; a watcher that wakes up for a session that a
\* reset has closed finds its captured channel closed and returns.
C26_ResetOrder ==
  /\ [](\A p \in Procs : pc[p] \in {"R_conns", "R_client"} => ResetSignalClosed)
  /\ [](\A p \in Procs : pc[p] = "R_client" => sshconns = {})
  /\ [][\A p \in Procs :
          (InResetCode(p) /\ m = p /\ pc'[p] # pc[p]) =>
            /\ (closedChans' # closedChans) =>
                 (pc[p] = "R_select" /\ UNCHANGED <<streamCloses, sshconns, sessCloses>>)
            /\ (streamCloses' # streamCloses \/ sshconns' # sshconns) =>
                 (pc[p] = "R_conns" /\ sshconns' = {} /\ UNCHANGED sessCloses
                    /\ \A c \in sshconns : streamCloses[c] = 0 /\ streamCloses'[c] = 1)
            /\ (sessCloses' # sessCloses) =>
                 (pc[p] = "R_client" /\ sshconns = {} /\ ResetSignalClosed)
       ]_vars
  /\ [][\A s \in Sessions :
          (pc[WatcherOf(s)] = "W_check" /\ sessCloses[s] >= 1
             /\ pc'[WatcherOf(s)] # pc[WatcherOf(s)]) =>
            pc'[WatcherOf(s)] = "W_done"
       ]_vars

\* the watcher of a session that was alive until a reset closed it has
\* woken up; the reset closed one tracked stream
C26_Witness ==
  \E s \in Sessions :
    /\ pc[WatcherOf(s)] = "W_check" /\ sessCloses[s] = 1 /\ m = 0
    /\ effResets[NewResetChan(s)] = 1 /\ last = "closed"
    /\ \E c \in 1..nconns : connSess[c] = s /\ streamCloses[c] = 1

\* the connections made over the stored session that have not been closed
OpenConnsOfEpoch ==
  {c \in 1..nconns : client # 0 /\ connSess[c] = client /\ streamCloses[c] = 0}

\* C28: with tun.m free, the size of the tracked set is the number of
\* connections that successful dials returned over the stored session and
\* that have not been closed since; a DialContext that returns an error
\* leaves the tracked set as it is and has made no connection.
C28_Accounting ==
  /\ [](m = 0 => /\ Cardinality(sshconns) = Cardinality(OpenConnsOfEpoch)
                  /\ Cardinality(sshconns) >= 0
                  /\ Cardinality(sshconns) <= nconns)
  /\ [][\A w \in Workers :
          (pc[w] \in DialPcs /\ m = w /\ m' = 0) =>
            /\ last' \in {"ok", "ctxErr", "hsErr", "chanErr"}
            /\ (last' # "ok") => UNCHANGED <<sshconns, nconns, connSess>>
            /\ (last' = "ok") =>
                 /\ nconns' = nconns + 1 /\ sshconns' = sshconns \cup {nconns'}
                 /\ connSess'[nconns'] = client
       ]_vars

\* a channel open has just failed while one connection is tracked
C28_Witness ==
  /\ m = 0 /\ last = "chanErr" /\ err = "chanErr"
  /\ Cardinality(sshconns) = 1 /\ nconns = 1 /\ Connected

\* C29: when no operation is in progress and nothing is tracked, the
\* tunnel holds no live session that it has not given up.
C29_NoIdleSession ==
  (/\ m = 0 /\ sshconns = {}
   /\ \A w \in Workers : pc[w] = "idle"
   /\ \A s \in Sessions : pc[WatcherOf(s)] \in {"unborn", "W_wait", "W_done"})
  => ~(Connected /\ client # 0 /\ sessAlive[client] = "live")

\* C30: with tun.m free, a connection made by the tunnel is tracked iff
\* its stream has not been closed, and the tracked connections were all
\* opened over the stored session.
C30_TrackedIffOpen ==
  m = 0 =>
    /\ sshconns \subseteq 1..nconns
    /\ \A c \in 1..nconns :
         /\ (c \in sshconns <=> streamCloses[c] = 0)
         /\ (c \in sshconns => (client # 0 /\ connSess[c] = client))

\* a connection of the present epoch is tracked, one of an earlier epoch
\* was closed by the reset that ended it
C30_Witness ==
  /\ m = 0 /\ Connected /\ sshconns = {2} /\ streamCloses[2] = 0
  /\ streamCloses[1] = 1 /\ connSess[1] # client /\ connSess[2] = client

\* the positions at which a worker waits for tun.m
TunWaitPcs == {"D_lock", "C_lock", "SC_lock", "CC_lock"}

C22_IONeverWaits ==
  /\ [](\A v \in Workers : \A w \in Workers \ {v}, c \in Conns :
          (/\ m = v
           /\ pc[v] \in {"D_select", "D_handshake", "D_postcheck", "D_getNetConn",
                          "R_select", "R_conns", "R_client"}
           /\ pc[w] = "idle" /\ c \in 1..nconns) => ENABLED ConnIO(w, c))
  /\ [][cres'.op = "IO" => UNCHANGED <<m, mConn, pc, tunvars>>]_vars

\* a read or write on the open tracked connection has just succeeded while
\* the other worker is in the channel open of its DialContext
C22_Witness ==
  \E v \in Workers, c \in sshconns :
    /\ m = v /\ pc[v] = "D_getNetConn"
    /\ cres.op = "IO" /\ cres.conn = c /\ cres.err = "nil"

\* a process is inside an operation (a watcher blocked in Wait is not)
InProgress(p) == pc[p] \notin {"idle", "unborn", "W_wait", "W_done"}

NoneOf(t, chars) == \A i \in 1..Len(t) : t[i] \notin chars
HostPortForm(a) ==
  \E i \in 1..Len(a) :
    /\ a[i] = ":"
    /\ NoneOf(SubSeq(a, i + 1, Len(a)), {":", "[", "]"})
    /\ \/ NoneOf(SubSeq(a, 1, i - 1), {":", "[", "]"})
       \/ /\ i >= 3 /\ a[1] = "[" /\ a[i - 1] = "]"
          /\ NoneOf(SubSeq(a, 2, i - 2), {"[", "]"})

\* C23: New returns an error and no tunnel when the caller has no
\* Backend, no SSH configuration, an empty remote address or one that is
\* not of the form host:port; it never dials; when it returns no error
\* the tunnel is in RESET: reset channel closed, no session, nothing
\* tracked, empty connector cache.
C23_NewValidates ==
  (newRes # NoNewRes) =>
    /\ (\/ newArgs.drv = "nil" \/ newArgs.cfg = "nil"
        \/ newArgs.addr = <<>> \/ ~HostPortForm(newArgs.addr)) =>
          (newRes.err # "nil" /\ newRes.tun = "nil")
    /\ dials = 0 /\ \A x \in Sessions : sessAlive[x] = "none"
    /\ (newRes.err = "nil") =>
          /\ newRes.tun = "tunnel"
          /\ ResetSignalClosed /\ client = 0 /\ sshconns = {}
          /\ \A k \in Keys : connectors[k] = NoConnector
          /\ TunInit

\* C24: every DatabaseMap call returns either a map with a DB for every
\* datasource and no error, or no map and an error.
C24_AllOrNothing ==
  (dbRes # NoDbRes) =>
    \/ (dbRes.err = "nil" /\ dbRes.some /\ dbRes.map = Names)
    \/ (dbRes.err # "nil" /\ ~dbRes.some)

\* C31: an OpenConnector that the Backend fails returns the Backend's
\* error, stores nothing in the cache and leaves the session state alone;
\* the next OpenConnector with the same arguments goes to the Backend again.
C31_BackendErrorNotCached ==
  /\ [][\A w \in Workers :
          (pc[w] = "OC_body" /\ mConn = w /\ ~CacheHit /\ pc'[w] # pc[w]
             /\ ~BackendAccepts(oarg.drv, oarg.dsn)) =>
            /\ cres'.err = "dsnErr" /\ err' = "dsnErr"
            /\ cres'.connector = NoConnector
            /\ connectors' = connectors
            /\ backendCalls'[<<oarg.drv, oarg.dsn>>] = Bump(backendCalls[<<oarg.drv, oarg.dsn>>])
            /\ UNCHANGED <<m, tunvars, sessAlive, connSess, dials, nconns, histvars>>
       ]_vars
  /\ [](\A r \in Requests :
          ~BackendAccepts(r[1], r[2]) => connectors[CacheKey(r[1], r[2])] = NoConnector)

\* the Backend has just failed the same connection string a second time
C31_Witness ==
  /\ cres.op = "OpenConnector" /\ cres.err = "dsnErr" /\ err = "dsnErr"
  /\ \E r \in Requests :
       /\ cres.key = CacheKey(r[1], r[2]) /\ backendCalls[r] = 2
       /\ connectors[cres.key] = NoConnector

\* C32: an entry of the connector cache is never removed and never
\* replaced, and only OpenConnector changes the cache.
C32_CacheOnlyGrows ==
  /\ [][\A k \in Keys :
          connectors[k] # NoConnector => connectors'[k] = connectors[k]]_vars
  /\ [][(connectors' # connectors) =>
          \E w \in Workers : pc[w] \in {"OC_body", "OC_store"} /\ mConn = w
                                /\ pc'[w] = "idle"]_vars

\* a connector is cached, a connection made by the tunnel has been closed
\* by an effective reset, and the deadline flag has been set
C32_Witness ==
  /\ connectors[CacheKey(TunnelDriver, LockDsn)] # NoConnector
  /\ ResetSignalClosed /\ m = 0 /\ mConn = 0
  /\ \E ch \in Chans : effResets[ch] >= 1
  /\ \E c \in 1..nconns : streamCloses[c] >= 1
  /\ ignoreSetDeadlineRequest

\* C38: in the driver-per-call form, an OpenConnector that returns a
\* connector returns the one the Backend made for the driver and the
\* connection string of this call, and the Backend has been invoked for
\* this pair.
C38_PairsNeverShare ==
  [][\A w \in Workers :
       (form = "perCall" /\ pc[w] = "OC_body" /\ mConn = w /\ pc'[w] # pc[w]
          /\ cres'.err = "nil") =>
         /\ cres'.connector = [drv |-> oarg.drv, dsn |-> oarg.dsn]
         /\ backendCalls'[<<oarg.drv, oarg.dsn>>] >= 1
    ]_vars

\* C33: a context that is done during the channel open does not fail the
\* dial; cancelling the context of a dial that has returned its connection
\* changes nothing; a connection leaves the tracked set, and its stream is
\* closed, only in its own Close or in a reset.
C33_CancelOnlyAtCheckpoints ==
  /\ [][\A w \in Workers :
          (pc[w] = "D_getNetConn" /\ m = w /\ Steps(w)) =>
            /\ last' \in {"ok", "chanErr"}
            /\ (last' = "ok") => (nconns' \in sshconns' /\ nconns' = nconns + 1)
       ]_vars
  /\ [](\A w \in Workers :
          (pc[w] = "D_getNetConn" /\ m = w /\ sessAlive[client] = "live") =>
            ENABLED (getNetConn(w) /\ last' = "ok"))
  /\ [][(cres'.op = "CancelCtx" \/ (ctx' # ctx /\ pc' = pc)) =>
          UNCHANGED <<m, pc, tunvars, sessAlive, connSess, histvars, last>>]_vars
  /\ [][\A c \in Conns :
          (c \in sshconns /\ (c \notin sshconns' \/ streamCloses'[c] # streamCloses[c])) =>
            \E p \in Procs :
              /\ m = p
              /\ \/ pc[p] = "SC_body" /\ arg[p] = c
                 \/ pc[p] = "R_conns"
       ]_vars

\* the context of the dial that returned the tracked connection has just
\* been cancelled, and another dial, whose context is done as well, is in
\* its channel open
C33_Witness ==
  \E c \in sshconns : \E w \in Workers :
    /\ cres.op = "CancelCtx" /\ cres.conn = c /\ streamCloses[c] = 0
    /\ pc[w] = "D_getNetConn" /\ m = w /\ ctx[w] = "done"
    /\ sessAlive[client] = "live"

\* C34: a DialContext whose handshake fails returns the handshake error and
\* changes nothing of the tunnel: the reset signal is still closed, the
\* stored client, the tracked set and the sessions are what they were, and
\* no watcher was started; the next DialContext with a live context goes
\* to the handshake again.
C34_FailedHandshakeLeavesTunnel ==
  /\ [][\A w \in Workers :
          (pc[w] = "D_handshake" /\ m = w /\ Steps(w) /\ pc'[w] # "D_postcheck") =>
            /\ last' = "hsErr" /\ err' = "hsErr"
            /\ ResetSignalClosed /\ ResetSignalClosed'
            /\ UNCHANGED <<tunvars, sessAlive, connSess, nconns, histvars>>
            /\ client' = 0 \/ sessCloses'[client'] >= 1
            /\ m' = 0 /\ pc'[w] = "idle"
       ]_vars
  /\ [][\A w \in Workers :
          (pc[w] = "D_select" /\ m = w /\ last = "hsErr" /\ ~CtxDone(w) /\ Steps(w)) =>
            /\ pc'[w] = "D_handshake"
       ]_vars

\* the handshake of a re-dial after a reset has just failed: the client of
\* the earlier epoch is still the stored one, closed
C34_Witness ==
  /\ err = "hsErr" /\ last = "hsErr" /\ m = 0
  /\ client # 0 /\ sessCloses[client] >= 1
  /\ ResetSignalClosed /\ sshconns = {}

\* C36: a DatabaseMap call that fails after it made the tunnel (empty
\* connection string, driver name not registered, OpenConnector error) has
\* closed the DBs it opened and the tunnel when it returns the error.
C36_FailureClosesAll ==
  (dbRes.err \in {"emptyDsn", "noDriver", "rejected"}) => tc.closed

\* C37: once a DatabaseMap call has returned a map, every later call
\* returns that map, makes no Tunnel and asks no Backend for a connector;
\* no TunnelConfig ever has more than one Tunnel made for it.
C37_OneTunnelPerConfig ==
  /\ [](tc.tunnels <= 1)
  /\ [][(dbRes.some /\ dbRes.err = "nil") =>
          /\ dbRes'.some /\ dbRes'.err = "nil"
          /\ dbRes'.map = dbRes.map /\ dbRes'.id = dbRes.id
          /\ tc'.tunnels = tc.tunnels /\ tc'.opens = tc.opens
          /\ tc'.dbMap = tc.dbMap
          /\ dbGot'.err \in {dbGot.err, "nil", "noName"}
       ]_vars

\* the map with every datasource was returned by the first call and again
\* by later calls, one of them a DB(name)
C37_Witness ==
  /\ tc.calls = MaxCalls /\ tc.tunnels = 1 /\ tc.opens = MaxDatasources
  /\ dbRes.some /\ dbRes.map = Names /\ dbRes.id = 1
  /\ dbGot.db \in Names

\* C35: the map of registered drivers is written and read only by the
\* holder of mDriverMap, so a write in RegisterDriver and a lookup in
\* Datasource.Driver are never pending together.
C35_RegistryAccessLocked ==
  /\ \A w \in Workers : reg[w].pc \in {"RD_write", "DR_read"} => mDriverMap = w
  /\ \A w \in Workers : ~(reg[w].pc = "DR_read" /\ RacingWrite(w))

\* C39: the channel is opened as unix when the address begins with "/" and
\* as tcp otherwise, the empty address included, whatever net argument the
\* caller gave; the address is passed on as it is.
C39_NetworkFromAddress ==
  (chanOpen # NoChan) =>
    /\ chanOpen.addr = dialArgs.addr
    /\ (dialArgs.addr = <<>>) => chanOpen.network = "tcp"
    /\ (dialArgs.addr # <<>> /\ Head(dialArgs.addr) = "/") => chanOpen.network = "unix"
    /\ (dialArgs.addr # <<>> /\ Head(dialArgs.addr) # "/") => chanOpen.network = "tcp"

\* a caller that named tcp got a unix channel for an address with a "/"
\* in front and another further on
C39_Witness ==
  /\ chanOpen.network = "unix" /\ dialArgs.net = "tcp"
  /\ Len(dialArgs.addr) = MaxAddrLen /\ dialArgs.addr[MaxAddrLen] = "/"

====
